---- MODULE Spec2Model ----
(***************************************************************************)
(* Model of evaler/inverse_eval.py: the resolution-matrix pipeline         *)
(* (get_R, get_r_master), the resolution metrics (standardize_columns,     *)
(* remove_diagonal, get_average_point_spread, get_average_cross_talk_map,  *)
(* resolution_map) and the save/load pair get_empirical_R_large /          *)
(* load_R_emp.                                                             *)
(*                                                                         *)
(* Floating point values are modelled as exact rationals <<n, d>> with     *)
(* d >= 0 in lowest terms; <<0, 0>> is NaN, <<1, 0>> is +inf and           *)
(* <<-1, 0>> is -inf, with numpy's rules for division by zero.             *)
(* Arrays are sequences (1-based); a matrix is a sequence of rows.         *)
(* Amplitudes are in units of 10**-8, the factor of lines 471 and 484.     *)
(***************************************************************************)
EXTENDS Integers, Sequences, FiniteSets, TLC

VARIABLES
    \* ---- get_r_master ----
    SNRs, n_jobs, labels, activation_labels, inv_methods, inv_function,
    arg_activation_labels,
    pc, SNR_njobs, activation_jobs, SNR_iterations, method_ix, group_count,
    r_tensor, r_tensor_vl, activation_chunks, inp_group, out,
    r_master, r_master_vl, err,
    \* ---- a direct call of get_R ----
    r_inp, r_pc, r_ret,
    \* ---- get_average_point_spread / get_average_cross_talk_map / resolution_map ----
    R, m_pc, m_call, acm, m_err,
    \* ---- get_empirical_R_large / load_R_emp ----
    l_methods, module_names, files, l_pc, l_ix, l_err, R_emp_all

mvars == <<SNRs, n_jobs, labels, activation_labels, inv_methods, inv_function,
           arg_activation_labels,
           pc, SNR_njobs, activation_jobs, SNR_iterations, method_ix, group_count,
           r_tensor, r_tensor_vl, activation_chunks, inp_group, out,
           r_master, r_master_vl, err>>
rvars == <<r_inp, r_pc, r_ret>>
pvars == <<R, m_pc, m_call, acm, m_err>>
lvars == <<l_methods, module_names, files, l_pc, l_ix, l_err, R_emp_all>>
vars == <<mvars, rvars, pvars, lvars>>

(***************************************************************************)
(* Bounds of the model.                                                    *)
(***************************************************************************)
MaxSNRs == 3
MaxJobs == 5
MaxVal == 1
MaxMethods == 2
Dims == 1..3

(***************************************************************************)
(* Floating point numbers as exact rationals.                              *)
(***************************************************************************)
Abs(x) == IF x < 0 THEN -x ELSE x

Sign(x) == IF x < 0 THEN -1 ELSE IF x > 0 THEN 1 ELSE 0

RECURSIVE GCD(_, _)
GCD(a, b) == IF b = 0 THEN a ELSE GCD(b, a % b)

Norm(n, d) ==
    IF d = 0 THEN <<Sign(n), 0>>
    ELSE LET g == GCD(Abs(n), d) IN <<n \div g, d \div g>>

NaN == <<0, 0>>
Inf == <<1, 0>>
Zero == <<0, 1>>
One == <<1, 1>>
Rat(i) == <<i, 1>>

IsNaN(x) == x = NaN

RAdd(x, y) ==
    IF x[2] = 0 /\ y[2] = 0
    THEN (IF x = y THEN x ELSE NaN)
    ELSE Norm(x[1] * y[2] + y[1] * x[2], x[2] * y[2])

RMul(x, y) == Norm(x[1] * y[1], x[2] * y[2])

RRecip(x) == IF x[1] < 0 THEN Norm(-x[2], -x[1]) ELSE Norm(x[2], x[1])

RDiv(x, y) ==
    IF y = Zero THEN <<Sign(x[1]), 0>> ELSE RMul(x, RRecip(y))

RAbs(x) == <<Abs(x[1]), x[2]>>

\* x <= y as floating point comparison: false when either side is NaN
RLeq(x, y) ==
    /\ ~IsNaN(x)
    /\ ~IsNaN(y)
    /\ IF x[2] = 0 /\ y[2] = 0 THEN x[1] <= y[1]
       ELSE x[1] * y[2] <= y[1] * x[2]

RECURSIVE RSum(_)
RSum(s) == IF s = <<>> THEN Zero ELSE RAdd(Head(s), RSum(Tail(s)))

\* np.mean: the mean of an empty array is NaN (0/0)
RMean(s) == RDiv(RSum(s), Rat(Len(s)))

RECURSIVE RMax(_)
RMax(s) ==
    IF Len(s) = 1 THEN s[1]
    ELSE LET h == Head(s)
             t == RMax(Tail(s))
         IN IF IsNaN(h) \/ IsNaN(t) THEN NaN
            ELSE IF RLeq(t, h) THEN h ELSE t

RECURSIVE Insert(_, _)
Insert(x, s) ==
    IF s = <<>> THEN <<x>>
    ELSE IF RLeq(x, Head(s)) THEN <<x>> \o s
    ELSE <<Head(s)>> \o Insert(x, Tail(s))

RECURSIVE Sort(_)
Sort(s) == IF s = <<>> THEN <<>> ELSE Insert(Head(s), Sort(Tail(s)))

\* np.median: NaN for an empty array or when a NaN is present
Median(s) ==
    IF s = <<>> \/ \E i \in 1..Len(s) : IsNaN(s[i]) THEN NaN
    ELSE LET t == Sort(s)
             n == Len(s)
         IN IF n % 2 = 1 THEN t[(n + 1) \div 2]
            ELSE RDiv(RAdd(t[n \div 2], t[(n \div 2) + 1]), Rat(2))

(***************************************************************************)
(* Array helpers.                                                          *)
(***************************************************************************)
Range(s) == {s[i] : i \in 1..Len(s)}

\* s[keep]: the elements of s at the positions in keep, in order
Pick(s, keep) ==
    LET F[i \in 0..Len(s)] ==
            IF i = 0 THEN <<>>
            ELSE IF i \in keep THEN Append(F[i - 1], s[i]) ELSE F[i - 1]
    IN F[Len(s)]

\* F(e), with e evaluated once
Bind(e, F(_)) == CHOOSE r \in {F(v) : v \in {e}} : TRUE

\* np.where(mask)[0] + offset, as a sorted sequence of (1-based) indices
Where(n, mask(_), offset) ==
    Pick([i \in 1..n |-> i + offset], {i \in 1..n : mask(i)})

Zeros(rows, cols) == [i \in 1..rows |-> [j \in 1..cols |-> Zero]]

Column(M, c) == [i \in 1..Len(M) |-> M[i][c]]

\* np.concatenate((A, B), axis=1)
HConcat(A, B) == [i \in 1..Len(A) |-> A[i] \o B[i]]

(***************************************************************************)
(* Resolution metrics.                                                     *)
(***************************************************************************)
Ok(v) == [kind |-> "ok", val |-> v]

Raise(exc, msg) == [kind |-> "raise", exc |-> exc, msg |-> msg]

\* the module defines or imports no name standardize_rows, join_source_spaces,
\* mlab, pickle, evaler or break_point: evaluating one raises NameError
NameError(name) == Raise("NameError", name)

StdColumnByDiag(M, d) == [i \in 1..Len(M) |-> RDiv(M[i][d], M[d][d])]

\* mutant: the column is divided by its diagonal entry whatever arg is
StdColumnByMax_Diag(M, d) == [i \in 1..Len(M) |-> RDiv(M[i][d], M[d][d])]

StdColumnByMax(M, d) == [i \in 1..Len(M) |-> RDiv(M[i][d], RMax(Column(M, d)))]

standardize_columns(M, arg) ==
    IF arg \notin {"diag", "max"}
    THEN Raise("ValueError", "arg must be either \"diag\" or \"max\". Breaking.")
    ELSE Ok([i \in 1..Len(M) |-> [d \in 1..Len(M[1]) |->
                IF arg = "diag" THEN StdColumnByDiag(M, d)[i]
                ELSE StdColumnByMax(M, d)[i]]])

\* stands for the fill value 9999999999999999 of remove_diagonal, which is
\* beyond the integers of the model; no matrix entry of the model reaches it
FillValue == <<1, -1>>

\* remove_diagonal(A) for A with nr rows and nc columns; the result has
\* shape (nr - 1, nc), column j holding column j of A without its
\* diagonal entry
remove_diagonal(A) ==
    LET nr == Len(A)
        nc == Len(A[1])
        A_off_diagonal == [i \in 1..nr |-> [j \in 1..nc |->
                              IF i = j THEN FillValue ELSE A[i][j]]]
        \* A_off_diagonal.T[np.where(~bool_ind)]: row-major over the transpose
        flat == LET F[k \in 0..(nr * nc)] ==
                        IF k = 0 THEN <<>>
                        ELSE LET j == ((k - 1) \div nr) + 1
                                 i == ((k - 1) % nr) + 1
                             IN IF A_off_diagonal[i][j] = FillValue THEN F[k - 1]
                                ELSE Append(F[k - 1], A_off_diagonal[i][j])
                IN F[nr * nc]
    IN IF Len(flat) # nc * (nr - 1)
       THEN Raise("ValueError", "cannot reshape array")
       ELSE Ok([shape |-> <<nr - 1, nc>>,
                a |-> [i \in 1..(nr - 1) |-> [j \in 1..nc |->
                          flat[(j - 1) * (nr - 1) + i]]]])

\* np.median(A, axis=0) of an array given with its shape
MedianAxis0(A) ==
    [j \in 1..A.shape[2] |-> Median([i \in 1..A.shape[1] |-> A.a[i][j]])]

get_average_point_spread(M, arg) ==
    LET R_std == standardize_columns(M, arg)
    IN IF R_std.kind = "raise" THEN R_std
       ELSE LET R_copy == remove_diagonal(R_std.val)
            IN IF R_copy.kind = "raise" THEN R_copy
               ELSE Ok(MedianAxis0(R_copy.val))

\* line 597 evaluates the name standardize_rows
get_average_cross_talk_map(M) == NameError("standardize_rows")

\* resolution_map up to the point where it returns or raises: the value of
\* its local acm, and the outcome
resolution_map(M, res_argument, arg) ==
    IF res_argument \notin {"point_spread", "cross_talk"}
    THEN Raise("ValueError", "res_argument has to be either point_spread or cross_talk")
    ELSE LET res == IF res_argument = "point_spread"
                    THEN get_average_point_spread(M, arg)
                    ELSE get_average_cross_talk_map(M)
         IN IF res.kind = "raise" THEN res
            ELSE [kind |-> "raise", exc |-> "NameError",
                  msg |-> "join_source_spaces", acm |-> res.val]

Args == {"max", "diag", "mean"}
ResArguments == {"point_spread", "cross_talk", "psf"}

SquareMatrices ==
    UNION {[1..n -> [1..n -> {Rat(v) : v \in 0..MaxVal}]] : n \in Dims}

NoCall == [fn |-> "none", res_argument |-> "none", arg |-> "none"]

MapInit ==
    /\ R \in SquareMatrices
    /\ m_pc = "start"
    /\ m_call = NoCall
    /\ acm = <<>>
    /\ m_err = Raise("none", "none")

MapIdle ==
    /\ R = <<>>
    /\ m_pc = "idle"
    /\ m_call = NoCall
    /\ acm = <<>>
    /\ m_err = Raise("none", "none")

Outcome(res) ==
    /\ m_pc' = IF res.kind = "ok" THEN "returned" ELSE "raised"
    /\ acm' = IF res.kind = "ok" THEN res.val
              ELSE IF "acm" \in DOMAIN res THEN res.acm ELSE <<>>
    /\ m_err' = IF res.kind = "ok" THEN Raise("none", "none")
                ELSE Raise(res.exc, res.msg)

CallPointSpread(arg) ==
    /\ m_pc = "start"
    /\ m_call' = [fn |-> "get_average_point_spread", res_argument |-> "none", arg |-> arg]
    /\ Outcome(get_average_point_spread(R, arg))
    /\ UNCHANGED <<R, mvars, rvars, lvars>>

CallCrossTalk ==
    /\ m_pc = "start"
    /\ m_call' = [fn |-> "get_average_cross_talk_map", res_argument |-> "none", arg |-> "none"]
    /\ Outcome(get_average_cross_talk_map(R))
    /\ UNCHANGED <<R, mvars, rvars, lvars>>

CallResolutionMap(res_argument, arg) ==
    /\ m_pc = "start"
    /\ m_call' = [fn |-> "resolution_map", res_argument |-> res_argument, arg |-> arg]
    /\ Outcome(resolution_map(R, res_argument, arg))
    /\ UNCHANGED <<R, mvars, rvars, lvars>>

(***************************************************************************)
(* get_empirical_R_large and load_R_emp.                                   *)
(*                                                                         *)
(* files maps an inverse method m to the content of the file               *)
(* './R_emp_' + m.  The dictionary evaler.get_empirical_R computes for the *)
(* method list [m] has its per-method entries under the key m only; it is  *)
(* modelled by that key.  module_names is the set of the names evaler,     *)
(* pickle and SNRs bound in the namespace of the module: the module binds  *)
(* none of them itself (lines 7-19), a script that uses it may.            *)
(***************************************************************************)
SeqsUpTo(S, n) == UNION {[1..k -> S] : k \in 1..n}

LMethods == {"MNE", "dSPM", "mixed_norm"}

NoFile == [exists |-> FALSE, key |-> "none"]

FileOf(m) == [exists |-> TRUE, key |-> m]

NoError == Raise("none", "none")

LargeInit ==
    /\ l_methods \in SeqsUpTo(LMethods, MaxMethods)
    /\ module_names \in SUBSET {"evaler", "pickle", "SNRs"}
    /\ files = [m \in LMethods |-> NoFile]
    /\ l_pc = "large"
    /\ l_ix = 1
    /\ l_err = NoError
    /\ R_emp_all = [m \in {} |-> "none"]

LargeIdle ==
    /\ l_methods = <<>>
    /\ module_names = {}
    /\ files = [m \in LMethods |-> NoFile]
    /\ l_pc = "idle"
    /\ l_ix = 1
    /\ l_err = NoError
    /\ R_emp_all = [m \in {} |-> "none"]

\* the file name the dump of line 267 writes, in the iteration for method m
DumpTarget(methods, m) == methods[1]

\* one iteration of the loop of get_empirical_R_large (lines 265-267)
LargeStep ==
    /\ l_pc = "large"
    /\ l_ix <= Len(l_methods)
    /\ IF "evaler" \notin module_names
       THEN /\ l_pc' = "large_raised"
            /\ l_err' = NameError("evaler")
            /\ UNCHANGED <<files, l_ix>>
       ELSE IF "pickle" \notin module_names
       THEN /\ l_pc' = "large_raised"
            /\ l_err' = NameError("pickle")
            /\ UNCHANGED <<files, l_ix>>
       ELSE /\ files' = [files EXCEPT ![DumpTarget(l_methods, l_methods[l_ix])] =
                                          FileOf(l_methods[l_ix])]
            /\ l_ix' = l_ix + 1
            /\ UNCHANGED <<l_pc, l_err>>
    /\ UNCHANGED <<l_methods, module_names, R_emp_all>>
    /\ UNCHANGED <<mvars, rvars, pvars>>

\* line 269
LargeReturn ==
    /\ l_pc = "large"
    /\ l_ix > Len(l_methods)
    /\ l_pc' = "large_returned"
    /\ UNCHANGED <<l_methods, module_names, files, l_ix, l_err, R_emp_all>>
    /\ UNCHANGED <<mvars, rvars, pvars>>

\* load_R_emp, lines 286-299: the first file is read for the layout and
\* R_emp_all gets an empty entry for every method
LoadOpen ==
    /\ l_pc = "large_returned"
    /\ IF "pickle" \notin module_names
       THEN /\ l_pc' = "load_raised"
            /\ l_err' = NameError("pickle")
            /\ UNCHANGED R_emp_all
       ELSE IF ~files[l_methods[1]].exists
       THEN /\ l_pc' = "load_raised"
            /\ l_err' = Raise("FileNotFoundError", l_methods[1])
            /\ UNCHANGED R_emp_all
       ELSE /\ l_pc' = "load"
            /\ R_emp_all' = [m \in Range(l_methods) |-> "empty"]
            /\ UNCHANGED l_err
    /\ l_ix' = 1
    /\ UNCHANGED <<l_methods, module_names, files>>
    /\ UNCHANGED <<mvars, rvars, pvars>>

\* one iteration of the loop of lines 301-309
LoadStep ==
    /\ l_pc = "load"
    /\ l_ix <= Len(l_methods)
    /\ LET m == l_methods[l_ix]
       IN IF ~files[m].exists
          THEN /\ l_pc' = "load_raised"
               /\ l_err' = Raise("FileNotFoundError", m)
               /\ UNCHANGED <<R_emp_all, l_ix>>
          ELSE IF files[m].key # m
          THEN /\ l_pc' = "load_raised"
               /\ l_err' = Raise("KeyError", m)
               /\ UNCHANGED <<R_emp_all, l_ix>>
          ELSE /\ R_emp_all' = [R_emp_all EXCEPT ![m] = files[m].key]
               /\ l_ix' = l_ix + 1
               /\ UNCHANGED <<l_pc, l_err>>
    /\ UNCHANGED <<l_methods, module_names, files>>
    /\ UNCHANGED <<mvars, rvars, pvars>>

\* lines 310-312: the name SNRs is neither a parameter nor a local
LoadFinish ==
    /\ l_pc = "load"
    /\ l_ix > Len(l_methods)
    /\ IF "SNRs" \notin module_names
       THEN /\ l_pc' = "load_raised"
            /\ l_err' = NameError("SNRs")
       ELSE /\ l_pc' = "load_returned"
            /\ UNCHANGED l_err
    /\ UNCHANGED <<l_methods, module_names, files, l_ix, R_emp_all>>
    /\ UNCHANGED <<mvars, rvars, pvars>>

(***************************************************************************)
(* The data get_R reads from its files: the forward solution of fname_fwd, *)
(* the averaged epochs of ave_fname (one time sample, no bad channel, one  *)
(* magnetometer, one gradiometer and one EEG channel) and the waveform.    *)
(***************************************************************************)
Label(name, hemi, vertices) == [name |-> name, hemi |-> hemi, vertices |-> vertices]

\* the forward solution as read and converted (lines 415-416): the vertex
\* numbers in use in each hemisphere and the gain matrix (channels x sources)
RawFwd ==
    [src |-> <<[vertno |-> <<1, 2, 4>>], [vertno |-> <<1, 3>>]>>,
     sol |-> << <<4, 1, 3, 0, 1>>,
                <<1, -2, 3, 1, 1>>,
                <<-1, 1, 3, 2, -1>> >>]

labels_unwanted == <<Label("unknown-lh", "lh", {4})>>

\* epochs_ave.data[:, 0:1]
Noise == <<1, -1, 2>>

\* mne.pick_types for ('mag', False), ('grad', False), (False, True)
ModInd == << <<1>>, <<2>>, <<3>> >>

LA == Label("A", "lh", {1})
LB == Label("B", "lh", {2, 3})
LC == Label("C", "rh", {1, 3})
LD == Label("D", "rh", {2})

\* the kernel the linear inverse of the model applies (sources x channels)
Kernel == << <<1, 0, 0>>, <<0, -1, 0>>, <<0, 0, 1>>, <<1, 1, -1>> >>

\* noise normalisation of dSPM and sLORETA (_assemble_kernel(...)[1])
NoiseNorm == <<1, 2, 1, 2>>

\* amplitude below which the sparse mixed-norm estimate leaves a source out
MxneThreshold == Rat(3)

LinearMethods == {"MNE", "dSPM", "eLORETA", "sLORETA"}

RECURSIVE IntSum(_)
IntSum(s) == IF s = <<>> THEN 0 ELSE Head(s) + IntSum(Tail(s))

NSources(fwd) == Len(fwd.src[1].vertno) + Len(fwd.src[2].vertno)

correct_fwd(fwd, unwanted) ==
    LET offset == Len(fwd.src[1].vertno)
        vertnos_lh == fwd.src[1].vertno
        vertnos_rh == fwd.src[2].vertno
        Removed(hemi) == UNION {unwanted[k].vertices :
                                  k \in {j \in 1..Len(unwanted) : unwanted[j].hemi = hemi}}
        sources_to_remove ==
            {i \in 1..Len(vertnos_lh) : vertnos_lh[i] \in Removed("lh")}
            \cup {i + offset : i \in {j \in 1..Len(vertnos_rh) : vertnos_rh[j] \in Removed("rh")}}
        source_to_keep == (1..Len(fwd.sol[1])) \ sources_to_remove
    IN [src |-> <<[vertno |-> Pick(vertnos_lh,
                        {i \in 1..Len(vertnos_lh) : vertnos_lh[i] \notin Removed("lh")})],
                  [vertno |-> Pick(vertnos_rh,
                        {i \in 1..Len(vertnos_rh) : vertnos_rh[i] \notin Removed("rh")})]>>,
        sol |-> [ch \in 1..Len(fwd.sol) |-> Pick(fwd.sol[ch], source_to_keep)]]

\* lines 429-436: the indices of the sources of a label
LabelInds(fwd, label) ==
    LET hemi_ind == IF label.hemi = "lh" THEN 1 ELSE 2
        vert_offset == IF label.hemi = "lh" THEN 0 ELSE Len(fwd.src[1].vertno)
        vertno == fwd.src[hemi_ind].vertno
        verts_in_src_space == label.vertices \cap Range(vertno)
    IN Where(Len(vertno), LAMBDA i : vertno[i] \in verts_in_src_space, vert_offset)

\* lines 427-439: label name -> source indices
LabelVerts(fwd, lbls) ==
    [nm \in {lbls[i].name : i \in 1..Len(lbls)} |->
        LabelInds(fwd, lbls[CHOOSE i \in 1..Len(lbls) : lbls[i].name = nm
                                  /\ \A j \in (i + 1)..Len(lbls) : lbls[j].name # nm])]

\* np.sum(G, axis=1) of lines 471-472 and np.dot(G, act) of lines 483-485,
\* for one time sample of waveform 1: the summed gain of the sources inds
PatchSignal(fwd, inds) ==
    [ch \in 1..Len(fwd.sol) |-> IntSum([k \in 1..Len(inds) |-> fwd.sol[ch][inds[k]]])]

\* line 455
NoisePower(key) == RMean([k \in 1..Len(ModInd[key]) |-> Rat(Abs(Noise[ModInd[key][k]]))])

\* lines 466-477: the common scaling of all activations
AveScale(fwd, label_verts, act, SNR) ==
    LET signal_power(c, key) ==
            LET signal == PatchSignal(fwd, label_verts[act[c].name])
            IN RMean([k \in 1..Len(ModInd[key]) |-> Rat(Abs(signal[ModInd[key][k]]))])
        sign_pow(key) == RMean([c \in 1..Len(act) |-> signal_power(c, key)])
        snrs == [key \in 1..Len(ModInd) |-> RDiv(sign_pow(key), NoisePower(key))]
    IN RDiv(SNR, RMean(snrs))

\* lines 501-507: the simulated sensor data of one activation
Sens(signal, scaling) ==
    IF scaling = Inf THEN [ch \in 1..Len(signal) |-> Rat(signal[ch])]
    ELSE [ch \in 1..Len(signal) |-> RAdd(RMul(scaling, Rat(signal[ch])), Rat(Noise[ch]))]

\* the estimate of a linear inverse: kernel times sensor data, noise
\* normalised for dSPM and sLORETA
LinearEstimate(sens, invmethod) ==
    [v \in 1..Len(Kernel) |->
        RMul(Rat(IF invmethod \in {"dSPM", "sLORETA"} THEN NoiseNorm[v] ELSE 1),
             RSum([ch \in 1..Len(sens) |-> RMul(Rat(Kernel[v][ch]), sens[ch])]))]

\* inv_function(evoked, SNR, invmethod, inverse_operator) of line 540
CallInvFunction(f, sens, invmethod) ==
    IF f = "None" THEN Raise("TypeError", "'NoneType' object is not callable")
    ELSE IF f = "nan" THEN Ok([v \in 1..Len(Kernel) |-> NaN])
    ELSE Ok(LinearEstimate(sens, invmethod))

\* mne.inverse_sparse.mixed_norm of line 520 with lines 522-525: the active
\* sources (src_inds) and their amplitudes (estimate.data)
MixedNorm(sens) ==
    LET full == LinearEstimate(sens, "mixed_norm")
        active == {v \in 1..Len(full) : RLeq(MxneThreshold, RAbs(full[v]))}
    IN [src_inds |-> Pick([v \in 1..Len(full) |-> v], active),
        data |-> Pick(full, active)]

(***************************************************************************)
(* get_R(inp).  inp is the record of the arguments that vary in the model: *)
(* labels, invmethod, SNR, activation_labels, compute_analytical and       *)
(* inv_function; an argument that may be None is a record with isNone.     *)
(***************************************************************************)
None == [isNone |-> TRUE, val |-> <<>>]
Some(v) == [isNone |-> FALSE, val |-> v]

\* lines 527-533: column c of R_emp and R_label_vert for a mixed-norm estimate
MixedNormColumn(estimate, lbls, label_verts, nsrc) ==
    [emp |-> [d \in 1..Len(lbls) |->
                LET inds_r == label_verts[lbls[d].name]
                    dipoles_in_label == {k \in 1..Len(estimate.src_inds) :
                                            estimate.src_inds[k] \in Range(inds_r)}
                    picked == Pick(estimate.data, dipoles_in_label)
                IN IF Cardinality(dipoles_in_label) > 0
                   THEN RMean([k \in 1..Len(picked) |-> RAbs(picked[k])])
                   ELSE Zero],
     vl |-> [v \in 1..nsrc |->
                IF v \in Range(estimate.src_inds)
                THEN RAbs(estimate.data[CHOOSE k \in 1..Len(estimate.src_inds) :
                                            estimate.src_inds[k] = v])
                ELSE Zero]]

\* line 548: the entry of R_emp for the label with sources inds_r
PatchEntry(source, inds_r) ==
    RMean([k \in 1..Len(inds_r) |-> RAbs(source[inds_r[k]])])

\* mutant: R_label_vert takes the estimate without the absolute value
SourceColumn_NoAbs(source, lbls, label_verts) ==
    [emp |-> [d \in 1..Len(lbls) |-> PatchEntry(source, label_verts[lbls[d].name])],
     vl |-> [v \in 1..Len(source) |-> source[v]]]

\* lines 545-550: column c of R_emp and R_label_vert for the estimate source
SourceColumn(source, lbls, label_verts) ==
    [emp |-> [d \in 1..Len(lbls) |-> PatchEntry(source, label_verts[lbls[d].name])],
     vl |-> [v \in 1..Len(source) |-> RAbs(source[v])]]

\* lines 519-550 for the sensor data sens: the column, or the exception
EstimateColumn(fwd, lbls, label_verts, sens, invmethod, f) ==
    IF invmethod = "mixed_norm"
    THEN Bind(MixedNormColumn(MixedNorm(sens), lbls, label_verts, NSources(fwd)),
              LAMBDA col : IF RSum(col.emp) = Zero
                           THEN NameError("break_point")
                           ELSE Ok(col))
    ELSE Bind(CallInvFunction(f, sens, invmethod),
              LAMBDA source :
                 IF source.kind = "raise" THEN source
                 ELSE IF \E v \in 1..Len(source.val) : IsNaN(source.val[v])
                 THEN NameError("break_point")
                 ELSE Ok(SourceColumn(source.val, lbls, label_verts)))

\* one iteration of the loop of lines 481-552: the column, or the exception
ActivationColumn(fwd, lbls, label_verts, label, scaling, invmethod, f) ==
    Bind(Sens(PatchSignal(fwd, label_verts[label.name]), scaling),
         LAMBDA sens : EstimateColumn(fwd, lbls, label_verts, sens, invmethod, f))

\* R = np.dot(K, fwd['sol']['data']) of lines 557-566
AnalyticalR(fwd, invmethod) ==
    [v \in 1..Len(Kernel) |-> [w \in 1..NSources(fwd) |->
        Rat((IF invmethod = "MNE" THEN 1 ELSE NoiseNorm[v])
            * IntSum([ch \in 1..Len(fwd.sol) |-> Kernel[v][ch] * fwd.sol[ch][w]]))]]

\* _convert_real_resolution_matrix_to_labels, lines 191-196
ConvertToLabels(RR, lbls, label_verts) ==
    [b \in 1..Len(lbls) |-> [a \in 1..Len(lbls) |->
        LET inds_a == label_verts[lbls[a].name]
            inds_b == label_verts[lbls[b].name]
        IN RMean([k \in 1..Len(inds_b) |->
                    RAbs(RSum([j \in 1..Len(inds_a) |-> RR[inds_b[k]][inds_a[j]]]))])]]

Returned(form, val) == [kind |-> "ok", form |-> form, val |-> val]

\* the scaling get_R uses for every activation (lines 419-424 and 466-477)
ScalingOf(inp) ==
    LET fwd == correct_fwd(RawFwd, labels_unwanted)
        act == IF inp.activation_labels.isNone THEN inp.labels
               ELSE inp.activation_labels.val
        SNR == IF inp.compute_analytical THEN Inf ELSE inp.SNR
    IN AveScale(fwd, LabelVerts(fwd, inp.labels), act, SNR)

\* lines 555-571, after the loop has filled the columns cols
GetRReturn(inp, fwd, label_verts, na, ave_scale, cols) ==
    LET lbls == inp.labels
        nl == Len(lbls)
        failed == {c \in 1..na : cols[c].kind = "raise"}
        R_emp == [d \in 1..nl |-> [c \in 1..na |-> cols[c].val.emp[d]]]
        R_label_vert == [v \in 1..NSources(fwd) |-> [c \in 1..na |-> cols[c].val.vl[v]]]
    IN IF failed # {}
       THEN cols[CHOOSE c \in failed : \A e \in failed : c <= e]
       ELSE IF inp.compute_analytical
       THEN IF na = 0 \/ ave_scale # Inf
            THEN Raise("UnboundLocalError", "lambda2")
            ELSE IF inp.invmethod \notin LinearMethods
            THEN Raise("AttributeError", "inverse_operator is None")
            ELSE IF inp.invmethod \in {"MNE", "dSPM", "sLORETA"}
            THEN Bind(AnalyticalR(fwd, inp.invmethod),
                      LAMBDA RR :
                        Returned("triple",
                          <<R_emp, ConvertToLabels(RR, lbls, label_verts),
                            [v \in 1..Len(RR) |-> [w \in 1..Len(RR[v]) |-> RAbs(RR[v][w])]]>>))
            ELSE Returned("array", R_emp)
       ELSE Returned("pair",
               <<[d \in 1..nl |-> [c \in 1..na |-> RAbs(R_emp[d][c])]], R_label_vert>>)

\* lines 445-552: the loop over the activation labels act
GetRLoop(inp, fwd, label_verts, act) ==
    IF \E c \in 1..Len(act) : act[c].name \notin DOMAIN label_verts
    THEN Raise("KeyError", "label_verts")
    ELSE Bind(AveScale(fwd, label_verts, act,
                       IF inp.compute_analytical THEN Inf ELSE inp.SNR),
              LAMBDA ave_scale :
                Bind([c \in 1..Len(act) |->
                        ActivationColumn(fwd, inp.labels, label_verts, act[c], ave_scale,
                                         inp.invmethod, inp.inv_function)],
                     LAMBDA cols :
                        GetRReturn(inp, fwd, label_verts, Len(act), ave_scale, cols)))

get_R(inp) ==
    Bind(correct_fwd(RawFwd, labels_unwanted),
         LAMBDA fwd :
            Bind(LabelVerts(fwd, inp.labels),
                 LAMBDA label_verts :
                    GetRLoop(inp, fwd, label_verts,
                             IF inp.activation_labels.isNone THEN inp.labels
                             ELSE inp.activation_labels.val)))

(***************************************************************************)
(* A direct call of get_R.                                                 *)
(***************************************************************************)
Methods == {"MNE", "dSPM", "sLORETA", "eLORETA", "mixed_norm", "custom"}
InvFunctions == {"None", "lin", "nan"}
SNRValues == {Rat(1), Rat(4), Inf}
LabelLists == {<<LA, LC>>, <<LA, LB, LC>>, <<LB, LC, LD>>}
ActivationLists == {None, Some(<<>>), Some(<<LC>>), Some(<<LD>>), Some(<<LA, LC>>),
                    Some(<<LB, LC>>), Some(<<LC, LB>>)}

Inputs ==
    [labels : LabelLists, invmethod : Methods, SNR : SNRValues,
     activation_labels : ActivationLists, compute_analytical : BOOLEAN,
     inv_function : InvFunctions]

NoInput ==
    [labels |-> <<>>, invmethod |-> "none", SNR |-> Zero, activation_labels |-> None,
     compute_analytical |-> FALSE, inv_function |-> "None"]

GetRInit ==
    /\ r_inp \in Inputs
    /\ r_pc = "start"
    /\ r_ret = Raise("none", "none")

GetRIdle ==
    /\ r_inp = NoInput
    /\ r_pc = "idle"
    /\ r_ret = Raise("none", "none")

CallGetR ==
    /\ r_pc = "start"
    /\ r_ret' = get_R(r_inp)
    /\ r_pc' = IF r_ret'.kind = "ok" THEN "returned" ELSE "raised"
    /\ UNCHANGED <<r_inp, mvars, pvars, lvars>>

(***************************************************************************)
(* get_r_master.  arg_activation_labels keeps the activation_labels        *)
(* argument as passed; activation_labels is the local the loop of lines    *)
(* 989-996 reassigns.  r_tensor[k] is the slice r_tensor[:, :, k-1];       *)
(* out[j] is the result of the j-th job of the batch, in submission order. *)
(***************************************************************************)
MasterSNRLists ==
    UNION {{[i \in 1..n |-> Rat(i)], [i \in 1..n |-> Rat(n + 1 - i)]} : n \in 1..MaxSNRs}
MasterLabelLists == {<<LA, LB, LC>>, <<LB, LC, LD>>}
MasterActivationLists == {None, Some(<<LC, LB>>)}
MasterMethodLists ==
    {<<"MNE">>, <<"mixed_norm">>, <<"custom">>, <<"eLORETA", "custom">>,
     <<"dSPM", "MNE">>, <<"sLORETA", "mixed_norm">>, <<"mixed_norm", "MNE">>}

NotRun == [kind |-> "pending"]

MasterInit ==
    /\ SNRs \in MasterSNRLists
    /\ n_jobs \in 1..MaxJobs
    /\ labels \in MasterLabelLists
    /\ arg_activation_labels \in MasterActivationLists
    /\ activation_labels = arg_activation_labels
    /\ inv_methods \in MasterMethodLists
    /\ inv_function \in InvFunctions
    /\ pc = "start"
    /\ SNR_njobs = 0
    /\ activation_jobs = 0
    /\ SNR_iterations = <<>>
    /\ method_ix = 1
    /\ group_count = 0
    /\ r_tensor = <<>>
    /\ r_tensor_vl = <<>>
    /\ activation_chunks = <<>>
    /\ inp_group = <<>>
    /\ out = <<>>
    /\ r_master = [k \in {} |-> <<>>]
    /\ r_master_vl = [k \in {} |-> <<>>]
    /\ err = NoError

\* mutant: the activation jobs are rounded up instead of down
JobSplit_RoundUp(njobs, nSNR) ==
    IF njobs < 2 * nSNR THEN <<njobs, 1>>
    ELSE <<nSNR, (njobs + nSNR - 1) \div nSNR>>

\* lines 969-974: <<SNR_njobs, activation_jobs>>
JobSplit(njobs, nSNR) ==
    IF njobs < 2 * nSNR THEN <<njobs, 1>>
    ELSE <<nSNR, njobs \div nSNR>>

\* s[a:b] of Python, for 0 <= a <= b
Slice(s, a, b) ==
    LET hi == IF b < Len(s) THEN b ELSE Len(s)
    IN IF a >= hi THEN <<>> ELSE SubSeq(s, a + 1, hi)

\* lines 978-979 and 985-987
SNRGroups(snrs, njobs) ==
    LET iterations == Len(snrs) \div njobs
        N_remainder == Len(snrs) % njobs
        whole == [iteration \in 1..iterations |->
                    Slice(snrs, (iteration - 1) * njobs, iteration * njobs)]
    IN IF N_remainder # 0
       THEN Append(whole, Slice(snrs, njobs * iterations, Len(snrs)))
       ELSE whole

\* np.array_split(s, k)[i - 1]
ArraySplit(s, k, i) ==
    LET each == Len(s) \div k
        extras == Len(s) % k
        Start(j) == (j - 1) * each + (IF j - 1 < extras THEN j - 1 ELSE extras)
    IN Slice(s, Start(i), Start(i + 1))

\* the number of sources of the corrected forward solution, lines 980-983
vertno == NSources(correct_fwd(RawFwd, labels_unwanted))

\* lines 969-987
Begin ==
    /\ pc = "start"
    /\ SNR_njobs' = JobSplit(n_jobs, Len(SNRs))[1]
    /\ activation_jobs' = JobSplit(n_jobs, Len(SNRs))[2]
    /\ SNR_iterations' = SNRGroups(SNRs, SNR_njobs')
    /\ method_ix' = 1
    /\ pc' = "method"
    /\ UNCHANGED <<rvars, pvars, lvars>>
    /\ UNCHANGED <<SNRs, n_jobs, labels, activation_labels, inv_methods, inv_function,
                   arg_activation_labels, group_count, r_tensor, r_tensor_vl,
                   activation_chunks, inp_group, out, r_master, r_master_vl, err>>

\* lines 989-997: the tensors of one inverse method
Alloc ==
    /\ pc = "method"
    /\ method_ix <= Len(inv_methods)
    /\ IF activation_labels.isNone
       THEN /\ r_tensor' = [k \in 1..Len(SNRs) |-> Zeros(Len(labels), Len(labels))]
            /\ r_tensor_vl' = [k \in 1..Len(SNRs) |-> Zeros(vertno, Len(labels))]
            /\ activation_labels' = Some(labels)
       ELSE /\ r_tensor' = [k \in 1..Len(SNRs) |->
                               Zeros(Len(labels), Len(activation_labels.val))]
            /\ r_tensor_vl' = [k \in 1..Len(SNRs) |->
                                  Zeros(vertno, Len(activation_labels.val))]
            /\ UNCHANGED activation_labels
    /\ group_count' = 0
    /\ pc' = "group"
    /\ UNCHANGED <<rvars, pvars, lvars>>
    /\ UNCHANGED <<SNRs, n_jobs, labels, inv_methods, inv_function, arg_activation_labels,
                   SNR_njobs, activation_jobs, SNR_iterations, method_ix,
                   activation_chunks, inp_group, out, r_master, r_master_vl, err>>

\* lines 998-1008: the jobs of one batch, in submission order
Submit ==
    /\ pc = "group"
    /\ group_count < Len(SNR_iterations)
    /\ activation_chunks' = [i \in 1..activation_jobs |->
                                ArraySplit(activation_labels.val, activation_jobs, i)]
    /\ LET SNR_group == SNR_iterations[group_count + 1]
       IN inp_group' = [j \in 1..(Len(SNR_group) * activation_jobs) |->
                           <<SNR_group[((j - 1) \div activation_jobs) + 1],
                             activation_chunks'[((j - 1) % activation_jobs) + 1]>>]
    /\ out' = [j \in 1..Len(inp_group') |-> NotRun]
    /\ pc' = "parallel"
    /\ UNCHANGED <<rvars, pvars, lvars>>
    /\ UNCHANGED <<SNRs, n_jobs, labels, activation_labels, inv_methods, inv_function,
                   arg_activation_labels, SNR_njobs, activation_jobs, SNR_iterations,
                   method_ix, group_count, r_tensor, r_tensor_vl,
                   r_master, r_master_vl, err>>

\* the argument tuple of lines 1009-1011 for the input inp of the batch
JobInput(inp, inv_method) ==
    [labels |-> labels, invmethod |-> inv_method, SNR |-> inp[1],
     activation_labels |-> Some(inp[2]), compute_analytical |-> FALSE,
     inv_function |-> inv_function]

\* mutant: the jobs take their inputs from the batch in the order in which
\* they start instead of by their own position
RunJob_StartOrder(j) ==
    /\ pc = "parallel"
    /\ j \in 1..Len(out)
    /\ out[j] = NotRun
    /\ LET started == Cardinality({i \in 1..Len(out) : out[i] # NotRun})
       IN out' = [out EXCEPT ![j] = get_R(JobInput(inp_group[started + 1],
                                                   inv_methods[method_ix]))]
    /\ UNCHANGED <<rvars, pvars, lvars>>
    /\ UNCHANGED <<SNRs, n_jobs, labels, activation_labels, inv_methods, inv_function,
                   arg_activation_labels, pc, SNR_njobs, activation_jobs, SNR_iterations,
                   method_ix, group_count, r_tensor, r_tensor_vl, activation_chunks,
                   inp_group, r_master, r_master_vl, err>>

\* one job of the batch runs get_R (lines 1009-1011); the jobs of a batch
\* run in any order
RunJob(j) ==
    /\ pc = "parallel"
    /\ j \in 1..Len(out)
    /\ out[j] = NotRun
    /\ out' = [out EXCEPT ![j] = get_R(JobInput(inp_group[j], inv_methods[method_ix]))]
    /\ UNCHANGED <<rvars, pvars, lvars>>
    /\ UNCHANGED <<SNRs, n_jobs, labels, activation_labels, inv_methods, inv_function,
                   arg_activation_labels, pc, SNR_njobs, activation_jobs, SNR_iterations,
                   method_ix, group_count, r_tensor, r_tensor_vl, activation_chunks,
                   inp_group, r_master, r_master_vl, err>>

\* the exception of a job leaves the parallel call and get_r_master
JobRaised(j) ==
    /\ pc = "parallel"
    /\ j \in 1..Len(out)
    /\ out[j].kind = "raise"
    /\ pc' = "raised"
    /\ err' = out[j]
    /\ UNCHANGED <<rvars, pvars, lvars>>
    /\ UNCHANGED <<SNRs, n_jobs, labels, activation_labels, inv_methods, inv_function,
                   arg_activation_labels, SNR_njobs, activation_jobs, SNR_iterations,
                   method_ix, group_count, r_tensor, r_tensor_vl, activation_chunks,
                   inp_group, out, r_master, r_master_vl>>

\* lines 1014-1018: the matrices of the c-th SNR of the batch (c from 0),
\* which = 1 for R_emp and 2 for R_emp_vl
Gathered(res, c, njobs_act, rows, which) ==
    LET G[d \in 0..njobs_act] ==
            IF d = 0 THEN [i \in 1..rows |-> <<>>]
            ELSE HConcat(G[d - 1], res[c * njobs_act + d].val[which])
    IN G[njobs_act]

\* the index (from 0) of the slice written by lines 1019-1020
SliceIndex(c, gcount, SNR_group) == c + gcount * Len(SNR_group)

\* lines 1013-1020 on one tensor
Filled(tensor, res, gcount, SNR_group, njobs_act, rows, which) ==
    LET F[c \in 0..Len(SNR_group)] ==
            IF c = 0 THEN tensor
            ELSE [F[c - 1] EXCEPT ![SliceIndex(c - 1, gcount, SNR_group) + 1] =
                                      Gathered(res, c - 1, njobs_act, rows, which)]
    IN F[Len(SNR_group)]

\* lines 1013-1020: the results of the batch go into the tensors
Collect ==
    /\ pc = "parallel"
    /\ \A j \in 1..Len(out) : out[j].kind = "ok"
    /\ LET SNR_group == SNR_iterations[group_count + 1]
       IN /\ r_tensor' = Filled(r_tensor, out, group_count, SNR_group,
                                activation_jobs, Len(labels), 1)
          /\ r_tensor_vl' = Filled(r_tensor_vl, out, group_count, SNR_group,
                                   activation_jobs, vertno, 2)
    /\ group_count' = group_count + 1
    /\ pc' = "group"
    /\ UNCHANGED <<rvars, pvars, lvars>>
    /\ UNCHANGED <<SNRs, n_jobs, labels, activation_labels, inv_methods, inv_function,
                   arg_activation_labels, SNR_njobs, activation_jobs, SNR_iterations,
                   method_ix, activation_chunks, inp_group, out,
                   r_master, r_master_vl, err>>

\* dict.update({key : value})
Update(dict, key, value) ==
    [k \in DOMAIN dict \cup {key} |-> IF k = key THEN value ELSE dict[k]]

\* lines 1021-1022
EndMethod ==
    /\ pc = "group"
    /\ group_count >= Len(SNR_iterations)
    /\ r_master' = Update(r_master, inv_methods[method_ix], r_tensor)
    /\ r_master_vl' = Update(r_master_vl, inv_methods[method_ix], r_tensor_vl)
    /\ method_ix' = method_ix + 1
    /\ pc' = "method"
    /\ UNCHANGED <<rvars, pvars, lvars>>
    /\ UNCHANGED <<SNRs, n_jobs, labels, activation_labels, inv_methods, inv_function,
                   arg_activation_labels, SNR_njobs, activation_jobs, SNR_iterations,
                   group_count, r_tensor, r_tensor_vl, activation_chunks, inp_group,
                   out, err>>

\* mutant: only r_master_vl gets the key 'SNRs'
Finish_NoSNRs ==
    /\ pc = "method"
    /\ method_ix > Len(inv_methods)
    /\ r_master_vl' = Update(r_master_vl, "SNRs", SNRs)
    /\ pc' = "done"
    /\ UNCHANGED <<rvars, pvars, lvars>>
    /\ UNCHANGED <<SNRs, n_jobs, labels, activation_labels, inv_methods, inv_function,
                   arg_activation_labels, SNR_njobs, activation_jobs, SNR_iterations,
                   method_ix, group_count, r_tensor, r_tensor_vl, activation_chunks,
                   inp_group, out, r_master, err>>

\* lines 1024-1026
Finish ==
    /\ pc = "method"
    /\ method_ix > Len(inv_methods)
    /\ r_master_vl' = Update(r_master_vl, "SNRs", SNRs)
    /\ r_master' = Update(r_master, "SNRs", SNRs)
    /\ pc' = "done"
    /\ UNCHANGED <<rvars, pvars, lvars>>
    /\ UNCHANGED <<SNRs, n_jobs, labels, activation_labels, inv_methods, inv_function,
                   arg_activation_labels, SNR_njobs, activation_jobs, SNR_iterations,
                   method_ix, group_count, r_tensor, r_tensor_vl, activation_chunks,
                   inp_group, out, err>>

MasterIdle ==
    /\ SNRs = <<>>
    /\ n_jobs = 1
    /\ labels = <<>>
    /\ activation_labels = None
    /\ arg_activation_labels = None
    /\ inv_methods = <<>>
    /\ inv_function = "None"
    /\ pc = "idle"
    /\ SNR_njobs = 0
    /\ activation_jobs = 0
    /\ SNR_iterations = <<>>
    /\ method_ix = 1
    /\ group_count = 0
    /\ r_tensor = <<>>
    /\ r_tensor_vl = <<>>
    /\ activation_chunks = <<>>
    /\ inp_group = <<>>
    /\ out = <<>>
    /\ r_master = [k \in {} |-> <<>>]
    /\ r_master_vl = [k \in {} |-> <<>>]
    /\ err = NoError

(***************************************************************************)
(* Specifications.                                                         *)
(***************************************************************************)
\* get_r_master
Init == MasterInit /\ GetRIdle /\ MapIdle /\ LargeIdle

Next ==
    \/ Begin
    \/ Alloc
    \/ Submit
    \/ \E j \in 1..MaxJobs : RunJob(j)
    \/ \E j \in 1..MaxJobs : JobRaised(j)
    \/ Collect
    \/ EndMethod
    \/ Finish

Spec == Init /\ [][Next]_vars

\* a call of get_R
InitR == GetRInit /\ MasterIdle /\ MapIdle /\ LargeIdle

NextR == CallGetR

SpecR == InitR /\ [][NextR]_vars

\* the resolution metrics
InitMap == MapInit /\ MasterIdle /\ GetRIdle /\ LargeIdle

NextMap ==
    \/ \E arg \in Args : CallPointSpread(arg)
    \/ CallCrossTalk
    \/ \E res_argument \in ResArguments, arg \in Args : CallResolutionMap(res_argument, arg)

SpecMap == InitMap /\ [][NextMap]_vars

\* get_empirical_R_large followed by load_R_emp
InitLarge == LargeInit /\ MasterIdle /\ GetRIdle /\ MapIdle

NextLarge ==
    \/ LargeStep
    \/ LargeReturn
    \/ LoadOpen
    \/ LoadStep
    \/ LoadFinish

SpecLarge == InitLarge /\ [][NextLarge]_vars

(***************************************************************************)
(* Properties of get_r_master (specification Spec).                        *)
(***************************************************************************)
BuiltinMethods == {"MNE", "dSPM", "sLORETA", "eLORETA", "mixed_norm"}

\* the matrices get_R returns for SNR snr and inverse method m, its
\* per-chunk results joined in the order of the activation labels
ReturnedFor(m, snr, which) ==
    LET G[d \in 0..activation_jobs] ==
            IF d = 0 THEN [i \in 1..(IF which = 1 THEN Len(labels) ELSE vertno) |-> <<>>]
            ELSE HConcat(G[d - 1],
                         get_R(JobInput(<<snr, ArraySplit(activation_labels.val,
                                                          activation_jobs, d)>>, m)).val[which])
    IN G[activation_jobs]

\* C1: when get_r_master has returned, for every inverse method m and every
\* index k the slices r_master[m][:, :, k] and r_master_vl[m][:, :, k] are
\* the matrices get_R returned for SNRs[k]
C1_SlicePerSNR ==
    pc = "done" =>
        \A i \in 1..Len(inv_methods) : \A k \in 1..Len(SNRs) :
            /\ r_master[inv_methods[i]][k] = ReturnedFor(inv_methods[i], SNRs[k], 1)
            /\ r_master_vl[inv_methods[i]][k] = ReturnedFor(inv_methods[i], SNRs[k], 2)

\* C3: with inv_function left at None and only built-in inverse methods,
\* get_r_master does not fail for want of an inv_function
C3_BuiltinNeedsNoInvFunction ==
    (inv_function = "None" /\ Range(inv_methods) \subseteq BuiltinMethods)
        => ~(pc = "raised" /\ err.exc = "TypeError")

IsShape(M, rows, cols) == Len(M) = rows /\ \A i \in 1..rows : Len(M[i]) = cols

\* the activation labels get_r_master is to use
EffectiveActivation ==
    IF arg_activation_labels.isNone THEN labels ELSE arg_activation_labels.val

RECURSIVE Flatten(_)
Flatten(ss) == IF ss = <<>> THEN <<>> ELSE Head(ss) \o Flatten(Tail(ss))

C7_AtMostNJobs ==
    pc = "parallel" =>
        /\ Len(inp_group) <= n_jobs
        /\ Len(SNR_iterations[group_count + 1]) * Len(activation_chunks) <= n_jobs
        /\ SNR_njobs * activation_jobs <= n_jobs

\* C7 witness: a batch of several SNR values, each split in several
\* activation chunks, is running, with n_jobs no multiple of len(SNRs)
C7_Witness ==
    /\ pc = "parallel"
    /\ activation_jobs >= 2
    /\ n_jobs % Len(SNRs) # 0
    /\ Len(SNR_iterations[group_count + 1]) >= 2
    /\ \E j \in 1..Len(out) : out[j] # NotRun

(***************************************************************************)
(* Properties of get_R (specification SpecR).                              *)
(***************************************************************************)
ActOf(inp) ==
    IF inp.activation_labels.isNone THEN inp.labels ELSE inp.activation_labels.val

KnownLabels(inp) ==
    \A c \in 1..Len(ActOf(inp)) :
        ActOf(inp)[c].name \in {inp.labels[d].name : d \in 1..Len(inp.labels)}

\* C2: with compute_analytical True and invmethod one of MNE, dSPM, sLORETA,
\* eLORETA, what get_R returns is the triple (R_emp, R_analytical, R) of
\* shapes (n_labels, n_activation_labels), (n_labels, n_labels) and
\* (n_vertices, n_vertices)
C2_AnalyticalTriple ==
    (r_pc = "returned" /\ r_inp.compute_analytical
        /\ r_inp.invmethod \in {"MNE", "dSPM", "sLORETA", "eLORETA"}) =>
        /\ r_ret.form = "triple"
        /\ IsShape(r_ret.val[1], Len(r_inp.labels), Len(ActOf(r_inp)))
        /\ IsShape(r_ret.val[2], Len(r_inp.labels), Len(r_inp.labels))
        /\ IsShape(r_ret.val[3], vertno, vertno)

\* some activation label of the call gets a mixed-norm estimate that leaves
\* its column of R_emp all zero
ZeroEstimate(inp) ==
    LET fwd == correct_fwd(RawFwd, labels_unwanted)
        label_verts == LabelVerts(fwd, inp.labels)
    IN \E c \in 1..Len(ActOf(inp)) :
          RSum(MixedNormColumn(
                  MixedNorm(Sens(PatchSignal(fwd, label_verts[ActOf(inp)[c].name]),
                                 ScalingOf(inp))),
                  inp.labels, label_verts, NSources(fwd)).emp) = Zero

\* C4: get_R aborts with Exception('Nan value found in source estimate.
\* Aborting.') when the estimate of inv_function contains a NaN, and with
\* Exception('Estimate was equal to zero. Aborting.') when a mixed_norm
\* estimate leaves a column of R_emp all zero
C4_AbortMessages ==
    /\ (r_pc # "start" /\ r_inp.invmethod # "mixed_norm" /\ r_inp.inv_function = "nan"
            /\ KnownLabels(r_inp) /\ Len(ActOf(r_inp)) > 0) =>
          r_ret = Raise("Exception", "Nan value found in source estimate. Aborting.")
    /\ (r_pc # "start" /\ r_inp.invmethod = "mixed_norm" /\ KnownLabels(r_inp)
            /\ ZeroEstimate(r_inp)) =>
          r_ret = Raise("Exception", "Estimate was equal to zero. Aborting.")

NonNegative(M) ==
    \A i \in 1..Len(M) : \A j \in 1..Len(M[i]) : RLeq(Zero, M[i][j])

\* the shapes of the pair get_R returns without the analytical matrix
PairShapes ==
    /\ r_ret.form = "pair"
    /\ IsShape(r_ret.val[1], Len(r_inp.labels), Len(ActOf(r_inp)))
    /\ IsShape(r_ret.val[2], vertno, Len(ActOf(r_inp)))

\* get_R for the inputs of the call with another activation list
WithActivation(B) == get_R([r_inp EXCEPT !.activation_labels = B])

SameScalingCalls ==
    LET same == {B \in ActivationLists :
                    /\ KnownLabels([r_inp EXCEPT !.activation_labels = B])
                    /\ ScalingOf([r_inp EXCEPT !.activation_labels = B]) = ScalingOf(r_inp)}
        calls == {[act |-> ActOf([r_inp EXCEPT !.activation_labels = B]),
                   res |-> WithActivation(B)] : B \in same}
    IN {call \in calls : call.res.kind = "ok"}

\* the fwd of the call
CallFwd == correct_fwd(RawFwd, labels_unwanted)

C8_EveryMethodSavedAndLoaded ==
    /\ l_pc # "large" =>
          /\ l_pc # "large_raised"
          /\ \A m \in Range(l_methods) : files[m] = FileOf(m)
    /\ l_pc # "load_raised"
    /\ l_pc = "load_returned" => \A m \in Range(l_methods) : R_emp_all[m] = m

(***************************************************************************)
(* Properties of the resolution metrics (specification SpecMap).           *)
(***************************************************************************)
\* C9: get_average_cross_talk_map(R) returns an array of n values for every
\* n x n matrix R, and resolution_map with res_argument 'cross_talk' has its
\* map from this call
C9_CrossTalkMap ==
    /\ m_call.fn = "get_average_cross_talk_map" =>
          /\ m_pc = "returned"
          /\ Len(acm) = Len(R)
    /\ (m_call.fn = "resolution_map" /\ m_call.res_argument = "cross_talk") =>
          Len(acm) = Len(R)

PositiveColumnMaxima(M) ==
    \A j \in 1..Len(M) : \E i \in 1..Len(M) : M[i][j] # Zero

InUnitInterval(a) == \A j \in 1..Len(a) : RLeq(Zero, a[j]) /\ RLeq(a[j], One)

SignalOf(inp, c) ==
    PatchSignal(CallFwd, LabelVerts(CallFwd, inp.labels)[ActOf(inp)[c].name])

\* the sensor data get_R simulates for activation label c of the call inp
\* (lines 502-507)
SensOf(inp, c) == Sens(SignalOf(inp, c), ScalingOf(inp))

\* C11: with compute_analytical True the sensor data of every activation
\* label is the pure forward-projected signal whatever the SNR argument, and
\* lambda2 is defined when the analytical branch is reached; with
\* compute_analytical False and a finite SNR the sensor data is
\* scaling * signal + noise with one common finite scaling
C11_ScalingAndLambda2 ==
    (r_pc # "start" /\ KnownLabels(r_inp)) =>
        /\ r_inp.compute_analytical =>
              /\ \A c \in 1..Len(ActOf(r_inp)) :
                    SensOf(r_inp, c) =
                        [ch \in 1..Len(Noise) |-> Rat(SignalOf(r_inp, c)[ch])]
              /\ \A snr \in SNRValues :
                    ScalingOf([r_inp EXCEPT !.SNR = snr]) = ScalingOf(r_inp)
              /\ r_ret # Raise("UnboundLocalError", "lambda2")
        /\ (~r_inp.compute_analytical /\ r_inp.SNR # Inf) =>
              /\ ScalingOf(r_inp)[2] # 0 \/ ActOf(r_inp) = <<>>
              /\ \A c \in 1..Len(ActOf(r_inp)) :
                    SensOf(r_inp, c) =
                        [ch \in 1..Len(Noise) |->
                            RAdd(RMul(ScalingOf(r_inp), Rat(SignalOf(r_inp, c)[ch])),
                                 Rat(Noise[ch]))]

(***************************************************************************)
(* Independence of the order of the parallel jobs (specification Spec).    *)
(***************************************************************************)
\* lines 1002-1008: the inputs of the batch gcount (from 0), by position
InputsOfBatch(gcount) ==
    LET SNR_group == SNR_iterations[gcount + 1]
    IN [j \in 1..(Len(SNR_group) * activation_jobs) |->
           <<SNR_group[((j - 1) \div activation_jobs) + 1],
             ArraySplit(activation_labels.val, activation_jobs,
                        ((j - 1) % activation_jobs) + 1)>>]

\* lines 1009-1011 run one job after the other, in submission order
SequentialOut(gcount, inv_method) ==
    LET inps == InputsOfBatch(gcount)
    IN [j \in 1..Len(inps) |-> get_R(JobInput(inps[j], inv_method))]

\* lines 994-1020 for one inverse method with the jobs of every batch run in
\* submission order; which = 1 for r_tensor and 2 for r_tensor_vl
SequentialTensor(inv_method, which) ==
    LET rows == IF which = 1 THEN Len(labels) ELSE vertno
        T[g \in 0..Len(SNR_iterations)] ==
            IF g = 0
            THEN [k \in 1..Len(SNRs) |-> Zeros(rows, Len(activation_labels.val))]
            ELSE Bind(SequentialOut(g - 1, inv_method),
                      LAMBDA res :
                          IF \E j \in 1..Len(res) : res[j].kind # "ok"
                          THEN <<>>
                          ELSE Filled(T[g - 1], res, g - 1, SNR_iterations[g],
                                      activation_jobs, rows, which))
    IN T[Len(SNR_iterations)]

\* lines 989-1026 with the jobs run in submission order
SequentialMaster(which) ==
    [k \in Range(inv_methods) \cup {"SNRs"} |->
        IF k = "SNRs" THEN SNRs ELSE SequentialTensor(k, which)]

\* C12: whatever the order in which the jobs of a batch run and finish, the
\* result a job leaves at a position is the result of get_R for the input
\* submitted at that position, and the dictionaries get_r_master returns are
\* those of a run with the jobs taken one after the other in submission order
C12_OrderIndependent ==
    /\ pc = "parallel" =>
          \A j \in 1..Len(out) :
              \/ out[j] = NotRun
              \/ out[j] = get_R(JobInput(inp_group[j], inv_methods[method_ix]))
    /\ pc = "done" =>
          /\ r_master = SequentialMaster(1)
          /\ r_master_vl = SequentialMaster(2)

\* a later job of a batch has finished before the first one, the two having
\* different results
C12_Witness ==
    /\ pc = "parallel"
    /\ Len(out) >= 2
    /\ out[1] = NotRun
    /\ out[Len(out)].kind = "ok"
    /\ out[Len(out)] # get_R(JobInput(inp_group[1], inv_methods[method_ix]))

====
